---- MODULE Spec2Model ----
(***************************************************************************)
(* A state-machine model of bot.js, the Telegram movie search bot: the     *)
(* file catalog, the moderation workflow (upload, CONFIRM, CANCEL, TTL),   *)
(* the sequence generator, the quota and favorites ledgers, the membership *)
(* gate and keyword search.  Every `await` of a handler is a suspension    *)
(* point, so a handler is a process held in a slot of h and advanced one   *)
(* store call at a time; handlers of several updates interleave.           *)
(***************************************************************************)
EXTENDS Integers, Sequences, FiniteSets, TLC

VARIABLES
    pendings,     \* the Pending collection: a set of documents
    catalog,      \* the File collection: a set of documents
    counterSeq,   \* Counter {_id: 'file'}.seq, 0 while the document is absent
    pendingCount, \* number of Pending documents created so far (their _id source)
    ttlElapsed,   \* pending _ids whose created_at is more than 600 s in the past
    keyboards,    \* review messages that still show the Save / Cancel buttons,
                  \* and the page buttons of the results messages
    h,            \* in-flight handlers, one per slot
    publishLog,   \* history: the customId of every successful File.create, in order
    deleteCount,  \* number of /delete commands handled so far
    memberCache,  \* redis isMember:<userId>
    chatMember,   \* the external group's answer to getChatMember, per user
    limits,       \* the Limit collection: a set of documents
    today,        \* the UTC calendar day, new Date().toISOString().slice(0, 10)
    requests,     \* number of GET / ID-lookup updates taken so far
    delivered,    \* history: per customId, the sends of the file that succeeded
    favorites,    \* the Favorite collection: a set of documents
    searchKeys,   \* redis search:<userId>: the stored keyword list (<< >>: no key)
    outcomes,     \* history: the outcomes pending uploads reached, as [pid, outcome]
    users,        \* the User collection: the userIds, in insertion order
    escaped,      \* whether a rejection has left a handler that has no catch
    lastStart,    \* history: what the latest /start handler got from the gate
    lastCommand   \* history: the latest /delete, /stats or /broadcast update

modVars == <<pendings, catalog, counterSeq, pendingCount, ttlElapsed, keyboards,
             publishLog, deleteCount, outcomes>>
\* the moderation variables a download leaves alone
modVarsButCatalog == <<pendings, counterSeq, pendingCount, ttlElapsed, keyboards,
                       publishLog, deleteCount, outcomes>>
gateVars == <<memberCache, chatMember>>
quotaVars == <<limits, today, requests, delivered>>
ledgerVars == <<limits, today, requests, delivered, favorites, searchKeys>>
\* the user collection and the observations of handlers' ends
auxVars == <<users, escaped, lastStart, lastCommand>>
vars == <<pendings, catalog, counterSeq, pendingCount, ttlElapsed, keyboards, h,
          publishLog, deleteCount, memberCache, chatMember, limits, today,
          requests, delivered, favorites, searchKeys, outcomes, users, escaped,
          lastStart, lastCommand>>

----------------------------------------------------------------------------
(* Bounds of the model *)

\* handlers that may be in flight at the same time
NumSlots == 2
\* admin uploads over a run
MaxUploads == 2
\* /delete commands over a run
MaxDeletes == 1
\* GET callbacks and ID-lookup messages over a run
MaxRequests == 3
\* calendar days a run spans
MaxDay == 2
\* the highest page index a PAGE button carries
MaxPageInput == 2
\* the pieces a file name of the normalisation run is made of, at most
MaxPieces == 5
\* favorites the user holds when a favorites run starts
FavSeed == 48

\* the environment's DAILY_LIMIT and RESULTS_PER_PAGE, as configured for the model
DAILY_LIMIT_NUM == 2
RESULTS_PER_PAGE_NUM == 2
\* the favorites cap of the FAV branch
MaxFavorites == 50

Slots == 1..NumSlots

----------------------------------------------------------------------------
(* Configuration and identities *)

ADMIN_SET == {"a1"}
Users == {"a1", "u1"}
NonAdmins == Users \ ADMIN_SET
\* a chat every user of the model is in; a private chat has its user's id
GroupChat == "group"
FORCE_CHANNEL_ID == "@channel"

----------------------------------------------------------------------------
(* Text: a string is a sequence of one-character strings *)

UpperChars == <<"A","B","C","D","E","F","G","H","I","J","K","L","M",
                "N","O","P","Q","R","S","T","U","V","W","X","Y","Z">>
LowerChars == <<"a","b","c","d","e","f","g","h","i","j","k","l","m",
                "n","o","p","q","r","s","t","u","v","w","x","y","z">>
DigitChars == <<"0","1","2","3","4","5","6","7","8","9">>

Range(s) == {s[i] : i \in DOMAIN s}

\* the letters' case pairs; every other character is its own upper and lower case
LowerOf == [c \in Range(UpperChars) |->
               LowerChars[CHOOSE i \in DOMAIN UpperChars : UpperChars[i] = c]]
UpperOf == [c \in Range(LowerChars) |->
               UpperChars[CHOOSE i \in DOMAIN LowerChars : LowerChars[i] = c]]

ToLowerChar(c) == IF c \in DOMAIN LowerOf THEN LowerOf[c] ELSE c
ToUpperChar(c) == IF c \in DOMAIN UpperOf THEN UpperOf[c] ELSE c

toLowerCase(s) == [i \in DOMAIN s |-> ToLowerChar(s[i])]
toUpperCase(s) == [i \in DOMAIN s |-> ToUpperChar(s[i])]

\* \w of a JavaScript regular expression
WordChars == Range(UpperChars) \cup Range(LowerChars) \cup Range(DigitChars) \cup {"_"}
\* \s, as far as the model's alphabet goes
SpaceChars == {" ", "\t", "\n"}
\* the character class of cleanFileName's third replace
PunctChars == {"[", "]", "(", ")", "{", "}", ".", ";", ":", "~", "|", ",", "_", "-", "+"}

Extensions == { <<".","m","k","v">>, <<".","m","p","4">>, <<".","a","v","i">>,
                <<".","m","o","v">>, <<".","f","l","v">>, <<".","w","m","v">>,
                <<".","w","e","b","m">>, <<".","m","4","v">> }

EndsWith(s, suf) ==
    /\ Len(s) >= Len(suf)
    /\ SubSeq(s, Len(s) - Len(suf) + 1, Len(s)) = suf

\* .replace(/\.(mkv|mp4|avi|mov|flv|wmv|webm|m4v)$/i, '')
StripExtension(s) ==
    IF \E e \in Extensions : EndsWith(toLowerCase(s), e)
    THEN LET e == CHOOSE x \in Extensions : EndsWith(toLowerCase(s), x)
         IN  SubSeq(s, 1, Len(s) - Len(e))
    ELSE s

\* the first index >= i of s that holds no word character (Len(s)+1 if none)
RECURSIVE WordRunEnd(_, _)
WordRunEnd(s, i) ==
    IF i <= Len(s) /\ s[i] \in WordChars THEN WordRunEnd(s, i + 1) ELSE i

\* .replace(/@\w+/g, ''): leftmost, greedy, non-overlapping matches
RECURSIVE RemoveMentionsFrom(_, _)
RemoveMentionsFrom(s, i) ==
    IF i > Len(s) THEN << >>
    ELSE IF s[i] = "@" /\ i < Len(s) /\ s[i + 1] \in WordChars
         THEN RemoveMentionsFrom(s, WordRunEnd(s, i + 1))
         ELSE <<s[i]>> \o RemoveMentionsFrom(s, i + 1)

RemoveMentions(s) == RemoveMentionsFrom(s, 1)

\* .replace(/[\[\]\(\)\{\}\.\;\:\~\|\,\_\-\+]/g, ' ')
ReplacePunct(s) == [i \in DOMAIN s |-> IF s[i] \in PunctChars THEN " " ELSE s[i]]

\* the first index >= i of s that holds no whitespace (Len(s)+1 if none)
RECURSIVE SpaceRunEnd(_, _)
SpaceRunEnd(s, i) ==
    IF i <= Len(s) /\ s[i] \in SpaceChars THEN SpaceRunEnd(s, i + 1) ELSE i

\* .replace(/\s+/g, ' ')
RECURSIVE CollapseSpacesFrom(_, _)
CollapseSpacesFrom(s, i) ==
    IF i > Len(s) THEN << >>
    ELSE IF s[i] \in SpaceChars
         THEN <<" ">> \o CollapseSpacesFrom(s, SpaceRunEnd(s, i))
         ELSE <<s[i]>> \o CollapseSpacesFrom(s, i + 1)

CollapseSpaces(s) == CollapseSpacesFrom(s, 1)

RECURSIVE TrimStart(_)
TrimStart(s) ==
    IF s # << >> /\ Head(s) \in SpaceChars THEN TrimStart(Tail(s)) ELSE s

RECURSIVE TrimEnd(_)
TrimEnd(s) ==
    IF s # << >> /\ s[Len(s)] \in SpaceChars
    THEN TrimEnd(SubSeq(s, 1, Len(s) - 1)) ELSE s

trim(s) == TrimEnd(TrimStart(s))

\* a mutation of cleanFileName: the mentions are removed last
cleanFileNameMentionsLast(text) ==
    RemoveMentions(trim(CollapseSpaces(ReplacePunct(StripExtension(text)))))

cleanFileName(text) ==
    trim(CollapseSpaces(ReplacePunct(RemoveMentions(StripExtension(text)))))

\* String.prototype.split(' '): the pieces between single spaces, empty ones kept
RECURSIVE SplitFrom(_, _, _)
SplitFrom(s, i, cur) ==
    IF i > Len(s) THEN <<cur>>
    ELSE IF s[i] = " "
         THEN <<cur>> \o SplitFrom(s, i + 1, << >>)
         ELSE SplitFrom(s, i + 1, Append(cur, s[i]))

split(s) == SplitFrom(s, 1, << >>)

FilterNonEmpty(ss) == SelectSeq(ss, LAMBDA t : Len(t) > 0)

generateAttributes(text) == FilterNonEmpty(split(toLowerCase(text)))

----------------------------------------------------------------------------
(* Sequence generator *)

RECURSIVE ToDigits(_)
\* String(n) for a natural number
ToDigits(n) ==
    IF n < 10 THEN <<DigitChars[n + 1]>>
    ELSE ToDigits(n \div 10) \o <<DigitChars[(n % 10) + 1]>>

RECURSIVE padStart(_, _, _)
padStart(s, len, ch) ==
    IF Len(s) >= len THEN s ELSE padStart(<<ch>> \o s, len, ch)

\* 'F' + String(doc.seq).padStart(4, '0')
FormatId(seq) == <<"F">> \o padStart(ToDigits(seq), 4, "0")

\* the number an id carries: the decimal value of the digits after the 'F'
RECURSIVE DigitsValue(_)
DigitsValue(ds) ==
    IF ds = << >> THEN 0
    ELSE 10 * DigitsValue(SubSeq(ds, 1, Len(ds) - 1))
         + ((CHOOSE i \in DOMAIN DigitChars : DigitChars[i] = ds[Len(ds)]) - 1)

IdNumber(customId) == DigitsValue(Tail(customId))

\* a mutation of IncSeq: the update leaves seq as it was
IncSeqNoInc(seq) == seq

\* { $inc: { seq: 1 } } with upsert: an absent counter counts as 0
IncSeq(seq) == seq + 1

----------------------------------------------------------------------------
(* Documents and inputs *)

\* the media an update can carry: Telegram's file_id and the file's own name
Files == { [file_id |-> "fA", file_name |-> <<"U","p",".","m","k","v">>],
           [file_id |-> "fB", file_name |-> <<"x","_","y">>] }

\* the pieces of the file names of the normalisation run: extensions, the
\* mention sign, a word character, punctuation and whitespace
NamePieces == { <<".","m","k","v">>, <<".","M","P","4">>, <<"@">>, <<"a">>,
                <<"_">>, <<".">>, <<" ">>, <<"-">> }

\* the pieces of a sequence, joined
RECURSIVE Concat(_)
Concat(pieces) ==
    IF pieces = << >> THEN << >> ELSE Head(pieces) \o Concat(Tail(pieces))

\* file.file_name of the uploads of the normalisation run
NameInputs == {Concat(pieces) : pieces \in UNION {[1..n -> NamePieces] : n \in 0..MaxPieces}}

\* msg.caption: absent (the empty string), or a text
Captions == { << >>, <<"M","a","n","_","2">> }

Unknown == <<"U","n","k","n","o","w","n">>

\* the uploads a search or download run finds already published, in order
SeedFiles == <<
    [file_id |-> "f1",
     file_name |-> <<"I","r","o","n",".","M","a","n",".","2","0","0","8",".","m","k","v">>],
    [file_id |-> "f2", file_name |-> <<"I","r","o","n","m","a","n">>],
    [file_id |-> "f3", file_name |-> <<"i","r","o","n","_","M","A","N","-","2",".","M","P","4">>],
    [file_id |-> "f4", file_name |-> <<"M","a","n",".","a","v","i">>] >>

NoPending == [id |-> 0, adminId |-> "", chatId |-> "", file_id |-> "",
              file_name |-> << >>, clean_title |-> << >>, attributes |-> << >>]

NoFile == [customId |-> << >>, file_id |-> "", file_name |-> << >>, uploader_id |-> "",
           uploaded_at |-> 0, downloads |-> 0, clean_title |-> << >>,
           attributes |-> << >>]

\* a handler's slot: its position (pc), the update it serves and its locals
IdleH == [pc |-> "idle", kind |-> "", from |-> "", pid |-> 0, late |-> FALSE,
          pending |-> NoPending, customId |-> << >>, file |-> NoFile,
          keywords |-> << >>, total |-> 0, files |-> << >>,
          page |-> 0, nav |-> {}, msgQuery |-> << >>, recipients |-> << >>, idx |-> 0, attempts |-> << >>,
          success |-> 0, blocked |-> 0]

\* no /start was handled yet
NoStart == [from |-> "", query |-> "", allowed |-> FALSE]

\* no admin command was handled yet
NoCommand == [from |-> "", cmd |-> "", replied |-> FALSE]

IdleSlots == {s \in Slots : h[s].pc = "idle"}

\* an update is taken by the lowest free slot (slots are interchangeable)
FreeSlot(s) == IdleSlots # {} /\ s = CHOOSE x \in IdleSlots : \A y \in IdleSlots : x <= y

PendingById(pid) ==
    IF \E p \in pendings : p.id = pid
    THEN CHOOSE p \in pendings : p.id = pid
    ELSE NoPending

----------------------------------------------------------------------------
(* Membership gate *)

IsMemberStatus(status) == status \in {"creator", "administrator", "member"}

\* a mutation of IsAdmin: the handlers take the command from anyone
IsAdminAnyone(userId) == TRUE

\* ADMIN_SET.has(String(msg.from.id))
IsAdmin(userId) == userId \in ADMIN_SET

\* a mutation of FailOpen: the catch turns the user away
FailClosed == FALSE

\* the catch of verifyJoin: return true
FailOpen == TRUE

\* saveUser(msg): the upsert of the sender, or nothing when the store call
\* throws, which saveUser catches
SaveUserOutcomes(u) ==
    {IF u \in Range(users) THEN users ELSE Append(users, u), users}

\* verifyJoin(chatId, userId): the answers it can give and the cache entry it
\* leaves, the failure of a transport call being one of the cases
VerifyJoinOutcomes(u) ==
    IF FORCE_CHANNEL_ID = "" \/ u \in ADMIN_SET
    THEN {[allowed |-> TRUE, cache |-> memberCache[u], query |-> "none"]}
    ELSE IF memberCache[u] # "nil"
    THEN {[allowed |-> (memberCache[u] = "true"), cache |-> memberCache[u],
           query |-> "none"]}
    ELSE LET isMember == IsMemberStatus(chatMember[u])
         IN  \* getChatMember throws: caught, the user passes
             {[allowed |-> FailOpen, cache |-> "nil", query |-> "error"]}
             \cup
             \* the verdict is cached and, for a non-member, the prompt is sent
             {[allowed |-> isMember, cache |-> IF isMember THEN "true" ELSE "false",
               query |-> "ok"]}
             \cup
             \* the prompt's sendMessage throws after the verdict was cached
             (IF isMember THEN {}
              ELSE {[allowed |-> FailOpen, cache |-> "false", query |-> "ok"]})

\* the statuses getChatMember reports
MemberStatuses == {"member", "left"}

\* a user joins or leaves the channel
MembershipChange(u, status) ==
    /\ status \in MemberStatuses
    /\ chatMember[u] # status
    /\ chatMember' = [chatMember EXCEPT ![u] = status]
    /\ UNCHANGED <<modVars, h, memberCache, ledgerVars, auxVars>>

\* bot.onText(/\/start/): saveUser, then the gate
StartCommand(s, u) ==
    /\ FreeSlot(s)
    /\ \E us \in SaveUserOutcomes(u) : users' = us
    /\ \E o \in VerifyJoinOutcomes(u) :
          /\ memberCache' = [memberCache EXCEPT ![u] = o.cache]
          /\ lastStart' = [from |-> u, query |-> o.query, allowed |-> o.allowed]
          /\ h' = IF o.allowed
                  THEN [h EXCEPT ![s] = [IdleH EXCEPT !.pc = "start_send",
                                            !.kind = "START", !.from = u]]
                  ELSE h
    /\ UNCHANGED <<modVars, chatMember, ledgerVars, escaped, lastCommand>>

\* await bot.sendMessage(msg.chat.id, text): the welcome is sent or the call
\* throws, and nothing catches it
StartSend(s, sendOk) ==
    /\ h[s].pc = "start_send"
    /\ escaped' = (escaped \/ ~sendOk)
    /\ h' = [h EXCEPT ![s] = IdleH]
    /\ UNCHANGED <<modVars, gateVars, ledgerVars, users, lastStart, lastCommand>>

\* redis drops isMember:<userId> when its EX time is over
CacheExpire(u) ==
    /\ memberCache[u] # "nil"
    /\ memberCache' = [memberCache EXCEPT ![u] = "nil"]
    /\ UNCHANGED <<modVars, h, chatMember, ledgerVars, auxVars>>

----------------------------------------------------------------------------
(* Moderation workflow *)

\* the document Pending.create stores for an admin's upload
PendingDoc(id, u, chat, file, caption) ==
    LET rawName == IF caption # << >> THEN caption
                   ELSE IF file.file_name # << >> THEN file.file_name
                   ELSE Unknown
        clean == cleanFileName(rawName)
    IN  [id |-> id, adminId |-> u, chatId |-> chat,
         file_id |-> file.file_id, file_name |-> rawName,
         clean_title |-> clean, attributes |-> generateAttributes(clean)]

\* the document File.create stores on CONFIRM; stamp stands for uploaded_at
FileDoc(customId, p, stamp) ==
    [customId |-> customId, file_id |-> p.file_id,
     file_name |-> p.file_name, uploader_id |-> p.adminId,
     uploaded_at |-> stamp, downloads |-> 0,
     clean_title |-> p.clean_title, attributes |-> p.attributes]

\* bot.on('message'), branch 1: an update carrying a video or a document
Upload(u, file, caption, chat) ==
    /\ pendingCount < MaxUploads
    /\ chat \in {u, GroupChat}
    /\ IF u \in ADMIN_SET
       THEN LET doc == PendingDoc(pendingCount + 1, u, chat, file, caption)
            IN  /\ pendings' = pendings \cup {doc}
                /\ pendingCount' = pendingCount + 1
                /\ keyboards' = keyboards \cup {[pid |-> doc.id, chatId |-> chat]}
       ELSE \* no text either: the handler falls through and does nothing
            UNCHANGED <<pendings, pendingCount, keyboards>>
    /\ UNCHANGED <<catalog, counterSeq, ttlElapsed, h, publishLog, deleteCount, outcomes, gateVars, ledgerVars, auxVars>>

\* 600 s have passed since the document's created_at
TTLElapse(pid) ==
    /\ pid \in 1..pendingCount
    /\ pid \notin ttlElapsed
    /\ ttlElapsed' = ttlElapsed \cup {pid}
    /\ UNCHANGED <<pendings, catalog, counterSeq, pendingCount, keyboards, h,
                   publishLog, deleteCount, outcomes, gateVars, ledgerVars, auxVars>>

\* a pass of the store's TTL monitor over the expireAfterSeconds index: it
\* runs in the background, some time after a document's TTL has elapsed
TTLSweep ==
    /\ \E p \in pendings : p.id \in ttlElapsed
    /\ pendings' = {p \in pendings : p.id \notin ttlElapsed}
    /\ UNCHANGED <<catalog, counterSeq, pendingCount, ttlElapsed, keyboards, h,
                   publishLog, deleteCount, outcomes, gateVars, ledgerVars, auxVars>>

\* bot.on('callback_query') for CONFIRM:<pid> / CANCEL:<pid>: the button is
\* pressed by a user who sees the review message; the gate comes first
StartCallback(s, u, kind, pid) ==
    /\ FreeSlot(s)
    /\ kind \in {"CONFIRM", "CANCEL"}
    /\ \E k \in keyboards : k.pid = pid /\ k.chatId \in {u, GroupChat}
    /\ \E o \in VerifyJoinOutcomes(u) :
          /\ memberCache' = [memberCache EXCEPT ![u] = o.cache]
          /\ h' = IF o.allowed
                  THEN [h EXCEPT ![s] = [IdleH EXCEPT
                            !.pc = IF kind = "CONFIRM" THEN "confirm_find" ELSE "cancel",
                            !.kind = kind, !.from = u, !.pid = pid,
                            !.late = (pid \in ttlElapsed)]]
                  ELSE h
    /\ UNCHANGED <<modVars, chatMember, ledgerVars, auxVars>>

\* const pending = await Pending.findById(pendingId).lean()
ConfirmFind(s) ==
    /\ h[s].pc = "confirm_find"
    /\ LET pending == PendingById(h[s].pid)
       IN  IF pending = NoPending
           THEN /\ h' = [h EXCEPT ![s] = IdleH]
                /\ UNCHANGED pendings
           ELSE /\ h' = [h EXCEPT ![s].pc = "confirm_exists", ![s].pending = pending]
                /\ UNCHANGED pendings
    /\ UNCHANGED <<catalog, counterSeq, pendingCount, ttlElapsed, keyboards,
                   publishLog, deleteCount, outcomes, gateVars, ledgerVars, auxVars>>

\* const exists = await File.exists({ file_id: pending.file_id })
ConfirmExists(s) ==
    /\ h[s].pc = "confirm_exists"
    /\ h' = [h EXCEPT ![s].pc =
                IF \E f \in catalog : f.file_id = h[s].pending.file_id
                THEN "confirm_duplicate" ELSE "confirm_seq"]
    /\ UNCHANGED <<modVars, gateVars, ledgerVars, auxVars>>

\* await Pending.deleteOne(...); return bot.editMessageText('File already exists.')
ConfirmDuplicate(s) ==
    /\ h[s].pc = "confirm_duplicate"
    /\ pendings' = {p \in pendings : p.id # h[s].pid}
    /\ keyboards' = {k \in keyboards : k.pid # h[s].pid}
    /\ h' = [h EXCEPT ![s] = IdleH]
    /\ UNCHANGED <<catalog, counterSeq, pendingCount, ttlElapsed, publishLog, deleteCount, outcomes, gateVars, ledgerVars, auxVars>>

\* const customId = await nextSequence()
ConfirmSeq(s) ==
    /\ h[s].pc = "confirm_seq"
    /\ counterSeq' = IncSeq(counterSeq)
    /\ h' = [h EXCEPT ![s].pc = "confirm_create", ![s].customId = FormatId(counterSeq')]
    /\ UNCHANGED <<pendings, catalog, pendingCount, ttlElapsed, keyboards,
                   publishLog, deleteCount, outcomes, gateVars, ledgerVars, auxVars>>

\* a mutation of UniqueViolation: file_id carries no unique index
UniqueViolationNoFileId(doc) ==
    \E f \in catalog : f.customId = doc.customId

\* the unique indexes of FileSchema: customId and file_id
UniqueViolation(doc) ==
    \E f \in catalog : f.customId = doc.customId \/ f.file_id = doc.file_id

\* await File.create({...}); a duplicate key makes it throw into the catch
ConfirmCreate(s) ==
    /\ h[s].pc = "confirm_create"
    /\ LET p == h[s].pending
           doc == FileDoc(h[s].customId, p, Len(publishLog) + 1)
       IN  IF UniqueViolation(doc)
           THEN /\ h' = [h EXCEPT ![s] = IdleH]
                /\ UNCHANGED <<catalog, publishLog, outcomes>>
           ELSE /\ catalog' = catalog \cup {doc}
                /\ publishLog' = Append(publishLog, doc.customId)
                /\ outcomes' = outcomes \cup {[pid |-> h[s].pid, outcome |-> "Published"]}
                /\ h' = [h EXCEPT ![s].pc = "confirm_finish"]
    /\ UNCHANGED <<pendings, counterSeq, pendingCount, ttlElapsed, keyboards,
                   deleteCount, gateVars, ledgerVars, auxVars>>

\* await Pending.deleteOne(...); await bot.editMessageText('Published: ...')
ConfirmFinish(s) ==
    /\ h[s].pc = "confirm_finish"
    /\ pendings' = {p \in pendings : p.id # h[s].pid}
    /\ keyboards' = {k \in keyboards : k.pid # h[s].pid}
    /\ h' = [h EXCEPT ![s] = IdleH]
    /\ UNCHANGED <<catalog, counterSeq, pendingCount, ttlElapsed, publishLog, deleteCount, outcomes, gateVars, ledgerVars, auxVars>>

\* await Pending.deleteOne(...); await bot.editMessageText('Cancelled.')
Cancel(s) ==
    /\ h[s].pc = "cancel"
    /\ pendings' = {p \in pendings : p.id # h[s].pid}
    /\ keyboards' = {k \in keyboards : k.pid # h[s].pid}
    /\ outcomes' = outcomes \cup {[pid |-> h[s].pid, outcome |-> "Cancelled"]}
    /\ h' = [h EXCEPT ![s] = IdleH]
    /\ UNCHANGED <<catalog, counterSeq, pendingCount, ttlElapsed, publishLog, deleteCount,
                   gateVars, ledgerVars, auxVars>>

\* the texts /delete is tried with: every id published so far and the next
\* one, as typed in either letter case
DeleteTexts ==
    LET ids == Range(publishLog) \cup {FormatId(counterSeq + 1)}
    IN  ids \cup {toLowerCase(id) : id \in ids}

\* bot.onText(/\/delete (.+)/)
\* the message is '/delete ' and the text; the message listener ignores a text
\* that starts with '/'; the answer, 'Deleted' or 'Not found', is not awaited
Delete(u, text) ==
    /\ text \in DeleteTexts
    /\ deleteCount < MaxDeletes
    /\ deleteCount' = deleteCount + 1
    /\ IF IsAdmin(u)
       THEN LET customId == toUpperCase(trim(text))
            IN  catalog' = {f \in catalog : f.customId # customId}
       ELSE UNCHANGED catalog
    /\ lastCommand' = [from |-> u, cmd |-> "delete", replied |-> IsAdmin(u)]
    /\ UNCHANGED <<pendings, counterSeq, pendingCount, ttlElapsed, keyboards, h,
                   publishLog, outcomes, gateVars, ledgerVars, users, escaped,
                   lastStart>>

----------------------------------------------------------------------------
(* Admin commands: /stats and /broadcast *)

\* every handler step below leaves these alone
adminFrame == <<modVars, gateVars, ledgerVars, users, lastStart>>

\* bot.onText(/\/stats/): the admin check, then the three countDocuments
Stats(s, u) ==
    /\ FreeSlot(s)
    /\ lastCommand' = [from |-> u, cmd |-> "stats", replied |-> FALSE]
    /\ h' = IF IsAdmin(u)
            THEN [h EXCEPT ![s] = [IdleH EXCEPT !.pc = "stats_send", !.kind = "STATS",
                                      !.from = u]]
            ELSE h
    /\ UNCHANGED <<adminFrame, escaped>>

\* await bot.sendMessage(msg.chat.id, 'Stats ...'): sent, or the call throws and
\* nothing catches it
StatsSend(s, sendOk) ==
    /\ h[s].pc = "stats_send"
    /\ lastCommand' = IF sendOk /\ lastCommand.from = h[s].from /\ lastCommand.cmd = "stats"
                      THEN [lastCommand EXCEPT !.replied = TRUE]
                      ELSE lastCommand
    /\ escaped' = (escaped \/ ~sendOk)
    /\ h' = [h EXCEPT ![s] = IdleH]
    /\ UNCHANGED adminFrame

\* match[1] of /broadcast: absent (the empty string), or a text
BroadcastTexts == { << >>, <<"h","i">> }

\* bot.onText(/\/broadcast(?: (.+))?/): the admin check, then the usage notice
\* when there is neither a text nor a replied-to message
Broadcast(s, u, text, isReply) ==
    /\ FreeSlot(s)
    /\ IF ~IsAdmin(u)
       THEN /\ lastCommand' = [from |-> u, cmd |-> "broadcast", replied |-> FALSE]
            /\ UNCHANGED h
       ELSE IF text = << >> /\ ~isReply
       THEN /\ lastCommand' = [from |-> u, cmd |-> "broadcast", replied |-> TRUE]
            /\ UNCHANGED h
       ELSE /\ lastCommand' = [from |-> u, cmd |-> "broadcast", replied |-> FALSE]
            /\ h' = [h EXCEPT ![s] = [IdleH EXCEPT !.pc = "bc_find", !.kind = "BROADCAST",
                                          !.from = u]]
    /\ UNCHANGED <<adminFrame, escaped>>

\* const users = await User.find({}, { userId: 1 }).lean();
\* const sentMsg = await bot.sendMessage(chatId, 'Broadcasting to N users...'):
\* when the announcement throws, nothing catches it and the handler ends
BroadcastFind(s, sendOk) ==
    /\ h[s].pc = "bc_find"
    /\ IF sendOk
       THEN /\ h' = [h EXCEPT ![s].recipients = users, ![s].idx = 1,
                              ![s].pc = IF users = << >> THEN "bc_report" ELSE "bc_send"]
            /\ lastCommand' = IF lastCommand.from = h[s].from /\ lastCommand.cmd = "broadcast"
                              THEN [lastCommand EXCEPT !.replied = TRUE]
                              ELSE lastCommand
            /\ UNCHANGED escaped
       ELSE /\ h' = [h EXCEPT ![s] = IdleH]
            /\ escaped' = TRUE
            /\ UNCHANGED lastCommand
    /\ UNCHANGED adminFrame

\* what a send to one recipient comes to: delivered, refused with 403, or
\* another error
SendOutcomes == {"ok", "blocked", "failed"}

\* a mutation of NextRecipient: an error of a send ends the loop
NextRecipientAbort(idx, n, outcome) == IF outcome = "ok" THEN idx + 1 ELSE n + 1

\* the catch inside the loop swallows the error: the next user is next
NextRecipient(idx, n, outcome) == idx + 1

\* one turn of the loop: copyMessage / sendMessage to users[idx] inside the try,
\* success++ or, for a 403, blocked++, then the 50 ms pause
BroadcastSend(s, outcome) ==
    /\ h[s].pc = "bc_send"
    /\ h[s].idx <= Len(h[s].recipients)
    /\ LET n == Len(h[s].recipients)
           next == NextRecipient(h[s].idx, n, outcome)
       IN  h' = [h EXCEPT ![s].attempts = Append(@, h[s].recipients[h[s].idx]),
                          ![s].success = IF outcome = "ok" THEN @ + 1 ELSE @,
                          ![s].blocked = IF outcome = "blocked" THEN @ + 1 ELSE @,
                          ![s].idx = next,
                          ![s].pc = IF next > n THEN "bc_report" ELSE "bc_send"]
    /\ UNCHANGED <<adminFrame, escaped, lastCommand>>

\* bot.editMessageText('Broadcast Complete ... Sent: success, Blocked/Failed:
\* blocked'): not awaited and without a catch
BroadcastReport(s, sendOk) ==
    /\ h[s].pc = "bc_report"
    /\ escaped' = (escaped \/ ~sendOk)
    /\ h' = [h EXCEPT ![s] = IdleH]
    /\ UNCHANGED <<adminFrame, lastCommand>>

----------------------------------------------------------------------------
(* Quota ledger and downloads *)

\* a mutation of getUserLimitCount: the record of the day is not found
getUserLimitCountNone(u) == 0

\* Limit.findOne({ userId, date: today }): doc?.count || 0
getUserLimitCount(u) ==
    LET docs == {r \in limits : r.userId = u /\ r.date = today}
    IN  IF docs = {} THEN 0 ELSE (CHOOSE r \in docs : TRUE).count

\* a mutation of UpsertLimit: the update inserts without matching the old document
UpsertLimitInsertOnly(ls, u, d) ==
    LET docs == {r \in ls : r.userId = u /\ r.date = d}
    IN  IF docs = {} THEN ls \cup {[userId |-> u, date |-> d, count |-> 1]}
        ELSE LET old == CHOOSE r \in docs : TRUE
             IN  ls \cup {[old EXCEPT !.count = old.count + 1]}

\* Limit.findOneAndUpdate({ userId, date }, { $inc: { count: 1 } }, { upsert: true })
UpsertLimit(ls, u, d) ==
    LET docs == {r \in ls : r.userId = u /\ r.date = d}
    IN  IF docs = {} THEN ls \cup {[userId |-> u, date |-> d, count |-> 1]}
        ELSE LET old == CHOOSE r \in docs : TRUE
             IN  (ls \ {old}) \cup {[old EXCEPT !.count = old.count + 1]}

\* /^F\d{4}$/i
IsIdText(t) ==
    /\ Len(t) = 5
    /\ t[1] \in {"F", "f"}
    /\ \A i \in 2..5 : t[i] \in Range(DigitChars)

\* the ids a download is asked for: every id handed out so far and the next one
IdInputs == {FormatId(n) : n \in 1..(counterSeq + 1)}
\* the same ids as a user types them
IdTexts == IdInputs \cup {toLowerCase(t) : t \in IdInputs}

\* midnight UTC
NextDay ==
    /\ today < MaxDay
    /\ today' = today + 1
    /\ UNCHANGED <<modVars, gateVars, h, limits, requests, delivered, favorites,
                   searchKeys, auxVars>>

\* bot.on('callback_query') for GET:<customId>, up to the gate
StartGet(s, u, customId) ==
    /\ FreeSlot(s)
    /\ requests < MaxRequests
    /\ requests' = requests + 1
    /\ \E o \in VerifyJoinOutcomes(u) :
          /\ memberCache' = [memberCache EXCEPT ![u] = o.cache]
          /\ h' = IF o.allowed
                  THEN [h EXCEPT ![s] = [IdleH EXCEPT !.pc = "get_find", !.kind = "GET",
                                            !.from = u, !.customId = customId]]
                  ELSE h
    /\ UNCHANGED <<modVars, chatMember, limits, today, delivered, favorites,
                   searchKeys, auxVars>>

\* bot.on('message'), branch 2A: a text that is an id; saveUser and the gate
\* come first, then customId = text.toUpperCase()
StartLookup(s, u, msgText) ==
    /\ FreeSlot(s)
    /\ requests < MaxRequests
    /\ requests' = requests + 1
    /\ LET text == trim(msgText)
       IN  /\ IsIdText(text)
           /\ \E o \in VerifyJoinOutcomes(u) :
                 /\ memberCache' = [memberCache EXCEPT ![u] = o.cache]
                 /\ h' = IF o.allowed
                         THEN [h EXCEPT ![s] = [IdleH EXCEPT !.pc = "get_find",
                                   !.kind = "LOOKUP", !.from = u,
                                   !.customId = toUpperCase(text)]]
                         ELSE h
    /\ \E us \in SaveUserOutcomes(u) : users' = us
    /\ UNCHANGED <<modVars, chatMember, limits, today, delivered, favorites,
                   searchKeys, escaped, lastStart, lastCommand>>

\* const file = await File.findOne({ customId }).lean()
GetFind(s) ==
    /\ h[s].pc = "get_find"
    /\ LET found == {f \in catalog : f.customId = h[s].customId}
       IN  h' = IF found = {}
                THEN [h EXCEPT ![s] = IdleH]
                ELSE [h EXCEPT ![s].pc = "get_peek",
                               ![s].file = CHOOSE f \in found : TRUE]
    /\ UNCHANGED <<modVars, gateVars, ledgerVars, auxVars>>

\* const used = await getUserLimitCount(fromId); if (used >= DAILY_LIMIT_NUM) return ...
\* then, for a GET, await bot.answerCallbackQuery('Sending file...'), which may throw
GetPeek(s, answered) ==
    /\ h[s].pc = "get_peek"
    /\ h' = IF getUserLimitCount(h[s].from) >= DAILY_LIMIT_NUM
            THEN [h EXCEPT ![s] = IdleH]
            ELSE IF h[s].kind = "GET" /\ ~answered
            THEN [h EXCEPT ![s] = IdleH]
            ELSE [h EXCEPT ![s].pc = "get_increment"]
    /\ UNCHANGED <<modVars, gateVars, ledgerVars, auxVars>>

\* await incrementAndGetLimit(fromId)
GetIncrement(s) ==
    /\ h[s].pc = "get_increment"
    /\ limits' = UpsertLimit(limits, h[s].from, today)
    /\ h' = [h EXCEPT ![s].pc = "get_count"]
    /\ UNCHANGED <<modVars, gateVars, today, requests, delivered, favorites,
                   searchKeys, auxVars>>

\* await File.updateOne({ _id: file._id }, { $inc: { downloads: 1 } })
GetCount(s) ==
    /\ h[s].pc = "get_count"
    /\ catalog' = {IF f.customId = h[s].file.customId /\ f.uploaded_at = h[s].file.uploaded_at
                   THEN [f EXCEPT !.downloads = f.downloads + 1] ELSE f : f \in catalog}
    /\ h' = [h EXCEPT ![s].pc = "get_send"]
    /\ UNCHANGED <<modVarsButCatalog, gateVars, ledgerVars, auxVars>>

\* sent = await bot.sendVideo / sendDocument(chatId, file.file_id, opts): the
\* transport delivers the file or throws; the callback handler's catch takes
\* the rejection of a GET, the message handler has no catch
GetSend(s, sendOk) ==
    /\ h[s].pc = "get_send"
    /\ delivered' = IF sendOk
                    THEN [delivered EXCEPT ![h[s].customId] = @ + 1]
                    ELSE delivered
    /\ escaped' = (escaped \/ (~sendOk /\ h[s].kind = "LOOKUP"))
    /\ h' = [h EXCEPT ![s] = IdleH]
    /\ UNCHANGED <<modVars, gateVars, limits, today, requests, favorites, searchKeys,
                   users, lastStart, lastCommand>>

----------------------------------------------------------------------------
(* Favorites ledger *)

\* bot.on('callback_query') for FAV:<customId>, up to the gate
StartFav(s, u, customId) ==
    /\ FreeSlot(s)
    /\ \E o \in VerifyJoinOutcomes(u) :
          /\ memberCache' = [memberCache EXCEPT ![u] = o.cache]
          /\ h' = IF o.allowed
                  THEN [h EXCEPT ![s] = [IdleH EXCEPT !.pc = "fav_find", !.kind = "FAV",
                                            !.from = u, !.customId = customId]]
                  ELSE h
    /\ UNCHANGED <<modVars, chatMember, ledgerVars, auxVars>>

\* const exists = await Favorite.findOne({ userId: fromId, customId }).lean()
FavFind(s) ==
    /\ h[s].pc = "fav_find"
    /\ h' = [h EXCEPT ![s].pc =
                IF [userId |-> h[s].from, customId |-> h[s].customId] \in favorites
                THEN "fav_delete" ELSE "fav_count"]
    /\ UNCHANGED <<modVars, gateVars, ledgerVars, auxVars>>

\* await Favorite.deleteOne({ userId: fromId, customId })
FavDelete(s) ==
    /\ h[s].pc = "fav_delete"
    /\ favorites' = favorites \ {[userId |-> h[s].from, customId |-> h[s].customId]}
    /\ h' = [h EXCEPT ![s] = IdleH]
    /\ UNCHANGED <<modVars, gateVars, quotaVars, searchKeys, auxVars>>

\* const count = await Favorite.countDocuments({ userId: fromId });
\* if (count >= 50) return 'Max 50 favorites.'
FavCount(s) ==
    /\ h[s].pc = "fav_count"
    /\ h' = IF Cardinality({r \in favorites : r.userId = h[s].from}) >= MaxFavorites
            THEN [h EXCEPT ![s] = IdleH]
            ELSE [h EXCEPT ![s].pc = "fav_create"]
    /\ UNCHANGED <<modVars, gateVars, ledgerVars, auxVars>>

\* await Favorite.create({ userId: fromId, customId }): the unique index on
\* (userId, customId) makes a second insert of the pair throw into the catch
FavCreate(s) ==
    /\ h[s].pc = "fav_create"
    /\ favorites' = favorites \cup {[userId |-> h[s].from, customId |-> h[s].customId]}
    /\ h' = [h EXCEPT ![s] = IdleH]
    /\ UNCHANGED <<modVars, gateVars, quotaVars, searchKeys, auxVars>>

----------------------------------------------------------------------------
(* Search *)

\* { attributes: { $in: keywords } }: a mutation of AllOf
AnyOf(attributes, keywords) ==
    \E i \in DOMAIN keywords : \E j \in DOMAIN attributes : attributes[j] = keywords[i]

\* { attributes: { $all: keywords } }: every keyword equals some element of the array
AllOf(attributes, keywords) ==
    \A i \in DOMAIN keywords : \E j \in DOMAIN attributes : attributes[j] = keywords[i]

\* the documents of the catalog the query selects
FindQuery(keywords) == {f \in catalog : AllOf(f.attributes, keywords)}

\* .sort({ uploaded_at: -1 }), as the sequence of the documents' customIds
RECURSIVE SortNewestFirst(_)
SortNewestFirst(docs) ==
    IF docs = {} THEN << >>
    ELSE LET f == CHOOSE x \in docs : \A y \in docs : y.uploaded_at <= x.uploaded_at
         IN  <<f.customId>> \o SortNewestFirst(docs \ {f})

\* a mutation of SkipLimit: the query has no skip
SkipLimitNoSkip(seq, skip, limit) ==
    SubSeq(seq, 1, IF Len(seq) < limit THEN Len(seq) ELSE limit)

\* .skip(skip).limit(limit)
SkipLimit(seq, skip, limit) ==
    SubSeq(seq, skip + 1, IF Len(seq) < skip + limit THEN Len(seq) ELSE skip + limit)

\* the texts users send
SearchTexts == {
    <<"i","r","o","n"," ","m","a","n">>,
    <<" ","I","r","o","n"," "," ","M","a","n">>,
    <<"m","a","n">>,
    <<"i","r","o","n","m","a","n">>,
    <<"2","0","0","8"," ","i","r","o","n">>,
    <<"m","a","n"," ","m","a","n"," ","2">>,
    <<"a","v","i">>,
    <<" ">>,
    <<"/","m","a","n">> }

\* bot.on('message'), branch 2: a text that is neither a command nor an id;
\* saveUser and the gate come first
StartSearch(s, u, msgText) ==
    /\ FreeSlot(s)
    /\ LET text == trim(msgText)
           keywords == FilterNonEmpty(split(toLowerCase(text)))
       IN  /\ text # << >>
           /\ Head(text) # "/"
           /\ ~IsIdText(text)
           /\ \E o \in VerifyJoinOutcomes(u) :
                 /\ memberCache' = [memberCache EXCEPT ![u] = o.cache]
                 /\ h' = IF o.allowed /\ keywords # << >>
                         THEN [h EXCEPT ![s] = [IdleH EXCEPT !.pc = "search_count",
                                   !.kind = "SEARCH", !.from = u, !.keywords = keywords]]
                         ELSE h
    /\ \E us \in SaveUserOutcomes(u) : users' = us
    /\ UNCHANGED <<modVars, chatMember, ledgerVars, escaped, lastStart, lastCommand>>

\* const total = await File.countDocuments(query)
SearchCount(s) ==
    /\ h[s].pc = "search_count"
    /\ h' = [h EXCEPT ![s].pc = "search_find",
                      ![s].total = Cardinality(FindQuery(h[s].keywords))]
    /\ UNCHANGED <<modVars, gateVars, ledgerVars, auxVars>>

\* const files = await File.find(query).sort(...).limit(RESULTS_PER_PAGE_NUM).lean();
\* if (!files.length) 'No results'
SearchFind(s) ==
    /\ h[s].pc = "search_find"
    /\ LET files == SkipLimit(SortNewestFirst(FindQuery(h[s].keywords)), 0,
                              RESULTS_PER_PAGE_NUM)
       IN  h' = IF files = << >>
                THEN [h EXCEPT ![s] = IdleH]
                ELSE [h EXCEPT ![s].pc = "search_store", ![s].files = files]
    /\ UNCHANGED <<modVars, gateVars, ledgerVars, auxVars>>

\* a button with callback_data PAGE:<page> on the results message that the
\* search for query got in the chat
PageButton(page, chat, query) == [page |-> page, chatId |-> chat, query |-> query]

\* the page buttons that are on display
PageButtons == {k \in keyboards : "page" \in DOMAIN k}

\* await redis.set(searchKey, JSON.stringify(keywords), 'EX', 300); the results
\* message is sent next, with the button PAGE:1 if (total > RESULTS_PER_PAGE_NUM)
SearchStore(s) ==
    /\ h[s].pc = "search_store"
    /\ searchKeys' = [searchKeys EXCEPT ![h[s].from] = h[s].keywords]
    /\ keyboards' = keyboards \cup
                        (IF h[s].total > RESULTS_PER_PAGE_NUM
                         THEN {PageButton(1, h[s].from, h[s].keywords)} ELSE {})
    /\ h' = [h EXCEPT ![s] = IdleH]
    /\ UNCHANGED <<pendings, catalog, counterSeq, pendingCount, ttlElapsed, publishLog,
                   deleteCount, outcomes, gateVars, quotaVars, favorites, auxVars>>

\* autoDeleteMessage(bot, chatId, sent.message_id): the results message of a
\* search is deleted 60 s after it was sent, and its buttons with it
AutoDelete(chat, query) ==
    /\ \E k \in PageButtons : k.chatId = chat /\ k.query = query
    /\ keyboards' = {k \in keyboards :
                         ~("page" \in DOMAIN k /\ k.chatId = chat /\ k.query = query)}
    /\ UNCHANGED <<pendings, catalog, counterSeq, pendingCount, ttlElapsed, publishLog,
                   deleteCount, outcomes, h, gateVars, ledgerVars, auxVars>>

\* redis drops search:<userId> 300 s after it was set
SearchKeyExpire(u) ==
    /\ searchKeys[u] # << >>
    /\ searchKeys' = [searchKeys EXCEPT ![u] = << >>]
    /\ UNCHANGED <<modVars, gateVars, h, quotaVars, favorites, auxVars>>

----------------------------------------------------------------------------
(* Pagination *)

\* Math.ceil(a / b)
CeilDiv(a, b) == (a + b - 1) \div b

\* a mutation of SessionMiss: the handler goes on without a session
SessionMissNever(rawKeywords) == FALSE

\* !rawKeywords
SessionMiss(rawKeywords) == rawKeywords = << >>

\* the page indexes of the PAGE buttons pressed
PageInputs == 0..MaxPageInput

\* bot.on('callback_query') for PAGE:<page>, up to the gate
\* msgQuery is the query of the search whose results message q.message is
StartPageOn(s, u, page, msgQuery) ==
    /\ FreeSlot(s)
    /\ \E o \in VerifyJoinOutcomes(u) :
          /\ memberCache' = [memberCache EXCEPT ![u] = o.cache]
          /\ h' = IF o.allowed
                  THEN [h EXCEPT ![s] = [IdleH EXCEPT !.pc = "page_get", !.kind = "PAGE",
                                            !.from = u, !.page = page,
                                            !.msgQuery = msgQuery]]
                  ELSE h
    /\ UNCHANGED <<modVars, chatMember, ledgerVars, auxVars>>

\* a PAGE button of a message sent before the run, which is not followed
StartPage(s, u, page) == StartPageOn(s, u, page, << >>)

\* the user presses a page button that is on display in the chat
PressPage(s, k) ==
    /\ k \in PageButtons
    /\ StartPageOn(s, k.chatId, k.page, k.query)

\* const rawKeywords = await redis.get(searchKey);
\* if (!rawKeywords) return 'Search expired.'
PageGet(s) ==
    /\ h[s].pc = "page_get"
    /\ LET rawKeywords == searchKeys[h[s].from]
       IN  h' = IF SessionMiss(rawKeywords)
                THEN [h EXCEPT ![s] = IdleH]
                ELSE [h EXCEPT ![s].pc = "page_count", ![s].keywords = rawKeywords]
    /\ UNCHANGED <<modVars, gateVars, ledgerVars, auxVars>>

\* const total = await File.countDocuments(query)
PageCount(s) ==
    /\ h[s].pc = "page_count"
    /\ h' = [h EXCEPT ![s].pc = "page_find",
                      ![s].total = Cardinality(FindQuery(h[s].keywords))]
    /\ UNCHANGED <<modVars, gateVars, ledgerVars, auxVars>>

\* const files = await File.find(query).sort(...).skip(page * RESULTS_PER_PAGE_NUM)
\* .limit(RESULTS_PER_PAGE_NUM).lean(); then the keyboard: the files and the
\* navigation row
PageFind(s) ==
    /\ h[s].pc = "page_find"
    /\ LET page == h[s].page
           files == SkipLimit(SortNewestFirst(FindQuery(h[s].keywords)),
                              page * RESULTS_PER_PAGE_NUM, RESULTS_PER_PAGE_NUM)
           maxPage == CeilDiv(h[s].total, RESULTS_PER_PAGE_NUM) - 1
           nav == (IF page > 0 THEN {"prev"} ELSE {})
                  \cup (IF page < maxPage THEN {"next"} ELSE {})
       IN  h' = [h EXCEPT ![s].pc = "page_render", ![s].files = files, ![s].nav = nav]
    /\ UNCHANGED <<modVars, gateVars, ledgerVars, auxVars>>

\* await bot.editMessageText('Results (Page ...)', ...): a rejection goes to
\* the catch of the callback handler
PageRender(s) ==
    /\ h[s].pc = "page_render"
    /\ keyboards' =
          IF h[s].msgQuery = << >> THEN keyboards
          ELSE {k \in keyboards : ~("page" \in DOMAIN k /\ k.chatId = h[s].from
                                                        /\ k.query = h[s].msgQuery)}
               \cup {PageButton(h[s].page - 1, h[s].from, h[s].msgQuery) :
                         x \in h[s].nav \cap {"prev"}}
               \cup {PageButton(h[s].page + 1, h[s].from, h[s].msgQuery) :
                         x \in h[s].nav \cap {"next"}}
    /\ h' = [h EXCEPT ![s] = IdleH]
    /\ UNCHANGED <<pendings, catalog, counterSeq, pendingCount, ttlElapsed, publishLog,
                   deleteCount, outcomes, gateVars, ledgerVars, auxVars>>

\* the searches sent while the buttons of earlier results are pressed
NavTexts == { <<"m","a","n">>, <<"i","r","o","n","m","a","n">>, <<"2","0","0","8">> }

\* the searches sent while pages are turned
PageTexts == { <<"m","a","n">>, <<"i","r","o","n"," ","m","a","n">>, <<"a","v","i">> }

----------------------------------------------------------------------------
(* Specifications *)

\* the pending documents of the first n seed uploads, sent by the admin
SeedPending(i) == PendingDoc(i, "a1", "a1", SeedFiles[i], << >>)

\* the catalog after the first n seed uploads were confirmed one after the other
SeedCatalog(n) == {FileDoc(FormatId(i), SeedPending(i), i) : i \in 1..n}

\* the state once n seed uploads are published and nothing is in flight
Seeded(n) ==
    /\ pendings = {}
    /\ catalog = SeedCatalog(n)
    /\ counterSeq = n
    /\ pendingCount = n
    /\ ttlElapsed = {}
    /\ keyboards = {}
    /\ h = [s \in Slots |-> IdleH]
    /\ publishLog = [i \in 1..n |-> FormatId(i)]
    /\ deleteCount = 0
    /\ memberCache = [u \in Users |-> "nil"]
    /\ chatMember = [u \in Users |-> "member"]
    /\ limits = {}
    /\ today = 1
    /\ requests = 0
    /\ delivered = [id \in {FormatId(i) : i \in 1..n} |-> 0]
    /\ favorites = {}
    /\ searchKeys = [u \in Users |-> << >>]
    /\ outcomes = {}
    /\ users = << >>
    /\ escaped = FALSE
    /\ lastStart = NoStart
    /\ lastCommand = NoCommand

\* the state after construction: every collection and cache is empty
Init == Seeded(0)

NextMod ==
    \/ \E u \in Users, file \in Files, caption \in Captions : Upload(u, file, caption, u)
    \/ \E s \in Slots, u \in ADMIN_SET, kind \in {"CONFIRM", "CANCEL"}, pid \in 1..MaxUploads :
          StartCallback(s, u, kind, pid)
    \/ \E s \in Slots : ConfirmFind(s)
    \/ \E s \in Slots : ConfirmExists(s)
    \/ \E s \in Slots : ConfirmDuplicate(s)
    \/ \E s \in Slots : ConfirmSeq(s)
    \/ \E s \in Slots : ConfirmCreate(s)
    \/ \E s \in Slots : ConfirmFinish(s)
    \/ \E s \in Slots : Cancel(s)
    \/ \E u \in Users, text \in DeleteTexts : Delete(u, text)

\* the moderation workflow in the admin's private chat: uploads, interleaved
\* CONFIRM / CANCEL handlers and /delete
SpecMod == Init /\ [][NextMod]_vars

NextAccess ==
    \/ \E u \in Users, file \in Files, chat \in {GroupChat} \cup Users :
          Upload(u, file, << >>, chat)
    \/ \E s \in Slots, u \in Users, kind \in {"CONFIRM", "CANCEL"}, pid \in 1..MaxUploads :
          StartCallback(s, u, kind, pid)
    \/ \E s \in Slots : ConfirmFind(s)
    \/ \E s \in Slots : ConfirmExists(s)
    \/ \E s \in Slots : ConfirmDuplicate(s)
    \/ \E s \in Slots : ConfirmSeq(s)
    \/ \E s \in Slots : ConfirmCreate(s)
    \/ \E s \in Slots : ConfirmFinish(s)
    \/ \E s \in Slots : Cancel(s)
    \/ \E pid \in 1..MaxUploads : TTLElapse(pid)
    \/ TTLSweep
    \/ \E u \in Users : CacheExpire(u)

\* the moderation workflow with review messages in a group chat, every user
\* pressing buttons, the membership cache and the TTL of pending uploads
SpecAccess == Init /\ [][NextAccess]_vars

InitQuota == Seeded(1)

NextQuota ==
    \/ \E s \in Slots, u \in Users, customId \in IdInputs : StartGet(s, u, customId)
    \/ \E s \in Slots, u \in Users, text \in IdTexts : StartLookup(s, u, text)
    \/ \E s \in Slots : GetFind(s)
    \/ \E s \in Slots, answered \in BOOLEAN : GetPeek(s, answered)
    \/ \E s \in Slots : GetIncrement(s)
    \/ \E s \in Slots : GetCount(s)
    \/ \E s \in Slots, sendOk \in BOOLEAN : GetSend(s, sendOk)
    \/ NextDay

NextGate ==
    \/ \E s \in Slots, u \in Users : StartCommand(s, u)
    \/ \E s \in Slots, sendOk \in BOOLEAN : StartSend(s, sendOk)
    \/ \E u \in Users, status \in MemberStatuses : MembershipChange(u, status)
    \/ \E u \in Users : CacheExpire(u)

\* /start commands at the membership gate while users join and leave the channel
SpecGate == Init /\ [][NextGate]_vars

NextAdmin ==
    \/ \E s \in Slots, u \in Users : StartCommand(s, u)
    \/ \E s \in Slots, sendOk \in BOOLEAN : StartSend(s, sendOk)
    \/ \E s \in Slots, u \in Users : Stats(s, u)
    \/ \E s \in Slots, sendOk \in BOOLEAN : StatsSend(s, sendOk)
    \/ \E s \in Slots, u \in Users, text \in BroadcastTexts, isReply \in BOOLEAN :
          Broadcast(s, u, text, isReply)
    \/ \E s \in Slots, sendOk \in BOOLEAN : BroadcastFind(s, sendOk)
    \/ \E s \in Slots, outcome \in SendOutcomes : BroadcastSend(s, outcome)
    \/ \E s \in Slots, sendOk \in BOOLEAN : BroadcastReport(s, sendOk)
    \/ \E u \in Users, text \in DeleteTexts : Delete(u, text)

\* the admin commands, sent by admins and by others, over a catalog of one
\* file while users register with /start
SpecAdmin == InitQuota /\ [][NextAdmin]_vars

\* every awaited call of a running broadcast returns: its loop and its report
\* go on
SpecAdminFair ==
    /\ SpecAdmin
    /\ \A s \in Slots : WF_vars(\E outcome \in SendOutcomes : BroadcastSend(s, outcome))
    /\ \A s \in Slots : WF_vars(\E sendOk \in BOOLEAN : BroadcastReport(s, sendOk))

\* downloads of a published file: interleaved GET handlers over several days
SpecQuota == InitQuota /\ [][NextQuota]_vars

\* the user holds FavSeed favorites and nothing is in flight
InitFav ==
    /\ pendings = {} /\ catalog = {} /\ counterSeq = 0 /\ pendingCount = 0
    /\ ttlElapsed = {} /\ keyboards = {} /\ publishLog = << >> /\ deleteCount = 0
    /\ h = [s \in Slots |-> IdleH]
    /\ memberCache = [u \in Users |-> "nil"]
    /\ chatMember = [u \in Users |-> "member"]
    /\ limits = {} /\ today = 1 /\ requests = 0
    /\ delivered = [id \in {} |-> 0]
    /\ favorites = {[userId |-> "u1", customId |-> FormatId(i)] : i \in 1..FavSeed}
    /\ searchKeys = [u \in Users |-> << >>]
    /\ outcomes = {} /\ users = << >> /\ escaped = FALSE /\ lastStart = NoStart
    /\ lastCommand = NoCommand

\* the FAV buttons the users press: a saved file and three others
FavInputs == {FormatId(i) : i \in FavSeed..(FavSeed + 3)}

NextFav ==
    \/ \E s \in Slots, u \in NonAdmins, customId \in FavInputs : StartFav(s, u, customId)
    \/ \E s \in Slots : FavFind(s)
    \/ \E s \in Slots : FavDelete(s)
    \/ \E s \in Slots : FavCount(s)
    \/ \E s \in Slots : FavCreate(s)

\* interleaved FAV toggles
SpecFav == InitFav /\ [][NextFav]_vars

\* one published file and a user one favorite short of the maximum
InitReject ==
    /\ pendings = {} /\ catalog = SeedCatalog(1) /\ counterSeq = 1 /\ pendingCount = 1
    /\ ttlElapsed = {} /\ keyboards = {} /\ deleteCount = 0
    /\ publishLog = <<FormatId(1)>>
    /\ h = [s \in Slots |-> IdleH]
    /\ memberCache = [u \in Users |-> "nil"]
    /\ chatMember = [u \in Users |-> "member"]
    /\ limits = {} /\ today = 1 /\ requests = 0
    /\ delivered = [id \in {FormatId(1)} |-> 0]
    /\ favorites = {[userId |-> "u1", customId |-> FormatId(i)] : i \in 1..(MaxFavorites - 1)}
    /\ searchKeys = [u \in Users |-> << >>]
    /\ outcomes = {} /\ users = << >> /\ escaped = FALSE /\ lastStart = NoStart
    /\ lastCommand = NoCommand

NextReject ==
    \/ \E s \in Slots, u \in NonAdmins : StartGet(s, u, FormatId(1))
    \/ \E s \in Slots, u \in NonAdmins, text \in {FormatId(1), toLowerCase(FormatId(1))} :
          StartLookup(s, u, text)
    \/ \E s \in Slots : GetFind(s)
    \/ \E s \in Slots, answered \in BOOLEAN : GetPeek(s, answered)
    \/ \E s \in Slots : GetIncrement(s)
    \/ \E s \in Slots : GetCount(s)
    \/ \E s \in Slots, sendOk \in BOOLEAN : GetSend(s, sendOk)
    \/ \E s \in Slots, u \in NonAdmins, n \in {MaxFavorites, MaxFavorites + 1} :
          StartFav(s, u, FormatId(n))
    \/ \E s \in Slots : FavFind(s)
    \/ \E s \in Slots : FavDelete(s)
    \/ \E s \in Slots : FavCount(s)
    \/ \E s \in Slots : FavCreate(s)

\* downloads up to the daily limit and FAV toggles up to the maximum
SpecReject == InitReject /\ [][NextReject]_vars

InitSearch == \E n \in 0..Len(SeedFiles) : Seeded(n)

NextSearch ==
    \/ \E s \in Slots, u \in NonAdmins, text \in SearchTexts : StartSearch(s, u, text)
    \/ \E s \in Slots : SearchCount(s)
    \/ \E s \in Slots : SearchFind(s)
    \/ \E s \in Slots : SearchStore(s)
    \/ \E u \in Users : SearchKeyExpire(u)

\* keyword searches over a published catalog
SpecSearch == InitSearch /\ [][NextSearch]_vars

NextPage ==
    \/ \E s \in Slots, u \in NonAdmins, text \in PageTexts : StartSearch(s, u, text)
    \/ \E s \in Slots : SearchCount(s)
    \/ \E s \in Slots : SearchFind(s)
    \/ \E s \in Slots : SearchStore(s)
    \/ \E u \in Users : SearchKeyExpire(u)
    \/ \E s \in Slots, u \in NonAdmins, page \in PageInputs : StartPage(s, u, page)
    \/ \E s \in Slots : PageGet(s)
    \/ \E s \in Slots : PageCount(s)
    \/ \E s \in Slots : PageFind(s)
    \/ \E s \in Slots : PageRender(s)
    \/ \E u \in ADMIN_SET, text \in DeleteTexts : Delete(u, text)

\* a user searches and turns pages while the search key expires and an admin
\* deletes a file
SpecPage == InitSearch /\ [][NextPage]_vars

\* an administrator sends one file under any of the names
NextClean ==
    /\ pendingCount < MaxUploads
    /\ \E name \in NameInputs :
          Upload("a1", [file_id |-> "fA", file_name |-> name], << >>, "a1")

\* the normalisation of the name of an upload
SpecClean == Seeded(MaxUploads - 1) /\ [][NextClean]_vars

\* the uploads published before a search by title: a title of two words and
\* a title that reads like the catalog id of the first
TitleFiles == <<
    [file_id |-> "t1", file_name |-> <<"I","r","o","n",".","M","a","n",".","m","k","v">>],
    [file_id |-> "t2", file_name |-> <<"f","0","0","0","1",".","m","p","4">>] >>

InitTitle ==
    /\ pendings = {}
    /\ catalog = {FileDoc(FormatId(i), PendingDoc(i, "a1", "a1", TitleFiles[i], << >>), i) :
                      i \in 1..Len(TitleFiles)}
    /\ counterSeq = Len(TitleFiles) /\ pendingCount = Len(TitleFiles)
    /\ ttlElapsed = {} /\ keyboards = {} /\ deleteCount = 0
    /\ publishLog = [i \in 1..Len(TitleFiles) |-> FormatId(i)]
    /\ h = [s \in Slots |-> IdleH]
    /\ memberCache = [u \in Users |-> "nil"]
    /\ chatMember = [u \in Users |-> "member"]
    /\ limits = {} /\ today = 1 /\ requests = 0
    /\ delivered = [id \in {FormatId(i) : i \in 1..Len(TitleFiles)} |-> 0]
    /\ favorites = {}
    /\ searchKeys = [u \in Users |-> << >>]
    /\ outcomes = {} /\ users = << >> /\ escaped = FALSE /\ lastStart = NoStart
    /\ lastCommand = NoCommand

\* the title of a record as a user types it: as it is, in lower and in upper case
TitleTexts(f) == {f.clean_title, toLowerCase(f.clean_title), toUpperCase(f.clean_title)}

NextTitle ==
    \/ \E s \in Slots, u \in NonAdmins, f \in catalog :
          \E text \in TitleTexts(f) : StartSearch(s, u, text)
    \/ \E s \in Slots, u \in NonAdmins, f \in catalog :
          \E text \in TitleTexts(f) : StartLookup(s, u, text)
    \/ \E s \in Slots : SearchCount(s)
    \/ \E s \in Slots : SearchFind(s)
    \/ \E s \in Slots : SearchStore(s)
    \/ \E s \in Slots : GetFind(s)
    \/ \E s \in Slots, answered \in BOOLEAN : GetPeek(s, answered)
    \/ \E s \in Slots : GetIncrement(s)
    \/ \E s \in Slots : GetCount(s)
    \/ \E s \in Slots, sendOk \in BOOLEAN : GetSend(s, sendOk)

\* users send the titles of the published files as messages
SpecTitle == InitTitle /\ [][NextTitle]_vars

NextNav ==
    \/ \E s \in Slots, u \in NonAdmins, text \in NavTexts : StartSearch(s, u, text)
    \/ \E s \in Slots : SearchCount(s)
    \/ \E s \in Slots : SearchFind(s)
    \/ \E s \in Slots : SearchStore(s)
    \/ \E u \in Users : SearchKeyExpire(u)
    \/ \E s \in Slots, k \in PageButtons : PressPage(s, k)
    \/ \E s \in Slots : PageGet(s)
    \/ \E s \in Slots : PageCount(s)
    \/ \E s \in Slots : PageFind(s)
    \/ \E s \in Slots : PageRender(s)
    \/ \E u \in NonAdmins, text \in NavTexts :
          AutoDelete(u, FilterNonEmpty(split(toLowerCase(text))))
    \/ \E u \in ADMIN_SET, text \in DeleteTexts : Delete(u, text)

\* a user searches and presses the page buttons the results messages show,
\* while messages and search keys expire and an admin deletes a file
SpecNav == Seeded(Len(SeedFiles)) /\ [][NextNav]_vars

----------------------------------------------------------------------------
(* Properties *)

\* C1: the catalog never holds two records with the same file_id, whatever the
\* interleaving of the CONFIRM handlers
C1_UniqueFileId ==
    \A f, g \in catalog : f.file_id = g.file_id => f = g

\* a CONFIRM reaches File.create after another one published the same file_id
C1_Witness ==
    \E s \in Slots :
        /\ h[s].pc = "confirm_create"
        /\ \E f \in catalog : f.file_id = h[s].pending.file_id

\* C2: no two successful publishes are assigned the same customId, also when
\* records were deleted in between
C2_NoIdReuse ==
    \A i, j \in DOMAIN publishLog : publishLog[i] = publishLog[j] => i = j

\* the same file was published twice, so the first record was deleted before
\* the second File.create
C2_Witness ==
    /\ deleteCount = 1
    /\ Len(publishLog) = 2
    /\ \E s, t \in Slots :
          /\ s # t
          /\ h[s].pc = "confirm_finish" /\ h[t].pc = "confirm_finish"
          /\ h[s].pending.file_id = h[t].pending.file_id

\* C3: no user ever holds more than 50 favorites
C3_AtMostFifty ==
    \A u \in Users : Cardinality({r \in favorites : r.userId = u}) <= MaxFavorites

\* C4: no user's count for a day ever exceeds the daily limit
C4_WithinDailyLimit ==
    \A r \in limits : r.count <= DAILY_LIMIT_NUM

\* C5: a step of a CONFIRM or CANCEL handler started by someone who is not an
\* administrator leaves the pending uploads and the catalog unchanged
C5_OnlyAdminsAct ==
    [][\A s \in Slots :
          (h[s].pc # "idle" /\ h'[s] # h[s] /\ h[s].from \notin ADMIN_SET)
              => (pendings' = pendings /\ catalog' = catalog)]_vars

\* C6: a CONFIRM pressed after the 10 minutes of its pending upload elapsed
\* never finds the upload and never publishes it
C6_NoLateAction ==
    \A s \in Slots :
        h[s].late => h[s].pc \notin {"confirm_exists", "confirm_duplicate", "confirm_seq",
                                     "confirm_create", "confirm_finish"}

\* the records whose attributes include every keyword
Superset(keywords) ==
    {f \in catalog : Range(keywords) \subseteq Range(f.attributes)}

\* C7: a keyword search counts and lists exactly the records whose attributes
\* include every keyword of the query
C7_StrictAnd ==
    \A s \in Slots :
        /\ h[s].pc \in {"search_find", "search_store"}
              => h[s].total = Cardinality(Superset(h[s].keywords))
        /\ h[s].pc = "search_store"
              => /\ Range(h[s].files) \subseteq {f.customId : f \in Superset(h[s].keywords)}
                 /\ Len(h[s].files) = IF h[s].total < RESULTS_PER_PAGE_NUM
                                      THEN h[s].total ELSE RESULTS_PER_PAGE_NUM

\* the search "iron man" lists the record {iron, man, 2008} and not {ironman}
C7_Witness ==
    \E s \in Slots, f, g \in catalog :
        /\ h[s].pc = "search_store"
        /\ h[s].keywords = << <<"i","r","o","n">>, <<"m","a","n">> >>
        /\ Range(f.attributes) = {<<"i","r","o","n">>, <<"m","a","n">>, <<"2","0","0","8">>}
        /\ Range(g.attributes) = {<<"i","r","o","n","m","a","n">>}
        /\ f.customId \in Range(h[s].files)
        /\ g.customId \notin Range(h[s].files)

\* C8: a CONFIRM that ends at File.create, because the file_id is in the
\* catalog by then, has discarded its pending upload; CONFIRMs that race with
\* another handler on the same pending upload are left aside
C8_DuplicateDiscarded ==
    [][\A s \in Slots :
          (/\ h[s].pc = "confirm_create" /\ h'[s].pc = "idle"
           /\ \A t \in Slots \ {s} : h[t].pc = "idle" \/ h[t].pid # h[s].pid)
              => h[s].pending \notin pendings']_vars

\* C9: when no handler is in flight, every record's downloads equals the number
\* of deliveries of the file that completed
C9_DownloadsAreDeliveries ==
    (\A s \in Slots : h[s].pc = "idle")
        => \A f \in catalog : f.downloads = delivered[f.customId]

\* at most one Limit record per user and day
QuotaUnique ==
    \A r1, r2 \in limits : (r1.userId = r2.userId /\ r1.date = r2.date) => r1 = r2

\* no record disappears or decreases, and a step changes at most the record of
\* one user for the current day
QuotaStep ==
    LET changed == {r \in limits' : r \notin limits}
    IN  /\ \A r \in limits : \E r2 \in limits' :
              r2.userId = r.userId /\ r2.date = r.date /\ r2.count >= r.count
        /\ Cardinality(changed) <= 1
        /\ \A c \in changed : c.date = today
        /\ \A r \in limits : r \in limits' \/
              \E c \in changed : c.userId = r.userId /\ c.date = r.date

\* C10: there is at most one Limit record per user and day, its count never
\* decreases, and an increment leaves every other user's and day's record as it was
C10_QuotaLedger == []QuotaUnique /\ [][QuotaStep]_vars

\* one user has a record on each of two days and another user has a record
C10_Witness ==
    \E r1, r2, r3 \in limits :
        /\ r1.userId = r2.userId /\ r1.date # r2.date
        /\ r3.userId # r1.userId

\* C19: no pending upload is both Cancelled and Published
C19_OneTerminalOutcome ==
    \A pid \in 1..pendingCount :
        ~ /\ [pid |-> pid, outcome |-> "Cancelled"] \in outcomes
          /\ [pid |-> pid, outcome |-> "Published"] \in outcomes

\* C20: the numbers of the published ids increase in the order the records
\* were inserted
C20_IncreasingIds ==
    \A i, j \in DOMAIN publishLog :
        i < j => IdNumber(publishLog[i]) < IdNumber(publishLog[j])

\* C11: a /start of a non-admin whose membership query raised an error is
\* let through and answered with the welcome, as a member's is
C11_FailsOpen ==
    [][\A s \in Slots, u \in NonAdmins :
          (StartCommand(s, u) /\ lastStart'.query = "error")
              => (lastStart'.allowed /\ h'[s].pc = "start_send")]_vars

\* a user who left the channel is being welcomed after the query failed
C11_Witness ==
    \E s \in Slots :
        /\ h[s].pc = "start_send"
        /\ h[s].from \in NonAdmins
        /\ lastStart = [from |-> h[s].from, query |-> "error", allowed |-> TRUE]
        /\ chatMember[h[s].from] = "left"

\* C12: no rejection leaves a user-facing handler uncaught
C12_NothingEscapes == ~escaped

\* C13: a /delete, /stats or /broadcast from someone outside the admin set
\* changes no collection, starts no handler and gets no answer
C13_SilentForOthers ==
    [][\A s \in Slots, u \in NonAdmins :
          (\/ Stats(s, u)
           \/ \E text \in BroadcastTexts, isReply \in BOOLEAN : Broadcast(s, u, text, isReply)
           \/ \E text \in DeleteTexts : Delete(u, text))
          => /\ UNCHANGED <<catalog, users, limits, favorites, pendings, h, escaped>>
             /\ ~lastCommand'.replied]_vars

\* someone outside the admin set has sent /delete for the file of the catalog
C13_Witness ==
    /\ lastCommand.from \in NonAdmins
    /\ lastCommand.cmd = "delete"
    /\ deleteCount = 1
    /\ catalog # {}
    /\ users # << >>

\* the recipients a broadcast has attempted are the users it read, in order,
\* each once
BroadcastProgress ==
    \A s \in Slots :
        /\ h[s].pc = "bc_send" => h[s].attempts = SubSeq(h[s].recipients, 1, h[s].idx - 1)
        /\ h[s].pc = "bc_report" => h[s].attempts = h[s].recipients

\* C16: a broadcast whose loop has started attempts every user it read exactly
\* once, in order, whatever the sends come to, and then reports and ends
C16_BroadcastCompletes ==
    /\ []BroadcastProgress
    /\ \A s \in Slots : (h[s].pc = "bc_send") ~> (h[s].pc = "bc_report")
    /\ \A s \in Slots : (h[s].pc = "bc_report") ~> (h[s].pc = "idle")

\* a broadcast to two users is about to report although no send succeeded
C16_Witness ==
    \E s \in Slots :
        /\ h[s].pc = "bc_report"
        /\ Len(h[s].recipients) = 2
        /\ h[s].attempts = h[s].recipients
        /\ h[s].success = 0

\* C17: the tallies a broadcast reports sum to the number of users attempted
C17_TalliesAddUp ==
    \A s \in Slots :
        h[s].pc = "bc_report" => h[s].success + h[s].blocked = Len(h[s].attempts)

PageHasSession ==
    \A s \in Slots :
        h[s].pc \in {"page_count", "page_find", "page_render"} => h[s].keywords # << >>

\* a PAGE that finds no session ends at once, and a session is stored only by
\* a search that found a file
SessionStep ==
    /\ \A s \in Slots :
          (h[s].pc = "page_get" /\ h'[s] # h[s] /\ searchKeys[h[s].from] = << >>)
              => (h'[s] = IdleH /\ UNCHANGED <<catalog, searchKeys>>)
    /\ \A u \in Users :
          (searchKeys'[u] # searchKeys[u] /\ searchKeys'[u] # << >>)
              => \E s \in Slots :
                    /\ h[s].pc = "search_store" /\ h[s].from = u
                    /\ h[s].files # << >> /\ h[s].total > 0
                    /\ searchKeys'[u] = h[s].keywords

\* C15: a PAGE of a user without an unexpired session reports the expiry,
\* queries nothing and renders nothing, and only a search with a result
\* stores a session
C15_NeedsSession == []PageHasSession /\ [][SessionStep]_vars

\* one PAGE of a user is rendering while the session has expired under
\* another PAGE of the same user
C15_Witness ==
    \E s, t \in Slots :
        /\ h[s].pc = "page_get" /\ searchKeys[h[s].from] = << >>
        /\ h[t].pc = "page_render" /\ h[t].from = h[s].from

\* C18: normalising the title cleanFileName gave an upload returns it
\* unchanged, whatever the name of the file
C18_Idempotent ==
    \A p \in pendings : cleanFileName(p.clean_title) = p.clean_title

\* a name with a mention next to another "@" and two extensions: the inner
\* extension stays in the title as a word and the lone "@" stays too
C18_Witness ==
    \E p \in pendings :
        /\ p.file_name = <<"@","@","a",".","M","P","4",".","m","k","v">>
        /\ p.clean_title = <<"@"," ","M","P","4">>

\* C21: a GET or an ID lookup that reads a count of the day at or above the
\* daily limit ends there and changes no Limit record, no downloads counter
\* and delivers nothing; a FAV of a file that is not saved and that counts 50
\* favorites or more ends there and leaves the favorites as they were
C21_RejectedChangesNothing ==
    [][\A s \in Slots :
          /\ (/\ h[s].pc = "get_peek" /\ h'[s] # h[s]
              /\ \E r \in limits : /\ r.userId = h[s].from /\ r.date = today
                                   /\ r.count >= DAILY_LIMIT_NUM)
                => (h'[s] = IdleH /\ UNCHANGED <<limits, catalog, delivered, favorites>>)
          /\ (/\ h[s].pc = "fav_count" /\ h'[s] # h[s]
              /\ Cardinality({r \in favorites : r.userId = h[s].from}) >= MaxFavorites)
                => (h'[s] = IdleH /\ UNCHANGED <<favorites, limits, catalog, delivered>>)]_vars

\* a download reads the count of a user at the limit while a FAV of the same
\* user counts 50 favorites
C21_Witness ==
    \E s, t \in Slots :
        /\ h[s].pc = "get_peek"
        /\ \E r \in limits : /\ r.userId = h[s].from /\ r.date = today
                             /\ r.count >= DAILY_LIMIT_NUM
        /\ h[t].pc = "fav_count" /\ h[t].from = h[s].from
        /\ Cardinality({r \in favorites : r.userId = h[t].from}) >= MaxFavorites
        /\ [userId |-> h[t].from, customId |-> h[t].customId] \notin favorites

\* C22: a Prev or Next button of a PAGE response, and the page button of a
\* search response, targets a page index from 0 to ceil(total / page size) - 1,
\* total being the count of that response
C22_ButtonsInRange ==
    \A s \in Slots :
        /\ (h[s].pc = "page_render" /\ "prev" \in h[s].nav)
              => (0 <= h[s].page - 1
                  /\ h[s].page - 1 < CeilDiv(h[s].total, RESULTS_PER_PAGE_NUM))
        /\ (h[s].pc = "page_render" /\ "next" \in h[s].nav)
              => h[s].page + 1 < CeilDiv(h[s].total, RESULTS_PER_PAGE_NUM)
        /\ (h[s].pc = "search_store" /\ h[s].total > RESULTS_PER_PAGE_NUM)
              => 1 < CeilDiv(h[s].total, RESULTS_PER_PAGE_NUM)

\* C24: the files a PAGE response lists on a results message match the query
\* of the search that sent the message
C24_PageOfItsQuery ==
    \A s \in Slots :
        (h[s].pc = "page_render" /\ h[s].msgQuery # << >>)
            => \A f \in catalog :
                  f.customId \in Range(h[s].files)
                      => Range(h[s].msgQuery) \subseteq Range(f.attributes)

\* C23: a /start whose gate got a non-member status from the membership query
\* and cached "false" in that call is not let through
C23_AnswerIsVerdict ==
    [][\A s \in Slots, u \in NonAdmins :
          (StartCommand(s, u) /\ lastStart'.query = "ok" /\ memberCache[u] = "nil"
              /\ memberCache'[u] = "false")
              => ~lastStart'.allowed]_vars

\* C25: a message whose text is the title of a published record, in any
\* letter case, starts a keyword search whose query the record matches
C25_FoundByTitle ==
    [][\A s \in Slots, u \in NonAdmins, f \in catalog :
          \A text \in TitleTexts(f) :
              (/\ f.clean_title # << >>
               /\ StartSearch(s, u, text) \/ StartLookup(s, u, text)
               /\ h'[s] # h[s])
                  => (h'[s].pc = "search_count" /\ f \in FindQuery(h'[s].keywords))]_vars

====
